---- MODULE Spec2Model ----
(***************************************************************************)
(* Model of examples/ga/mo_rhv.py: the regular hypervolume-based           *)
(* evolutionary algorithm (greedy version).                                *)
(*                                                                         *)
(* Individuals are heap objects named by an id; pop, offspring, fronts and *)
(* chosen are lists of ids, so aliasing between lists is visible.  An      *)
(* individual carries its decision vector x, its primary fitness values    *)
(* (the empty tuple when invalid, as base.Fitness keeps them) and its      *)
(* hypervolume-contribution fitness fitness_hv.                            *)
(***************************************************************************)
EXTENDS Integers, Sequences, FiniteSets, TLC

\* ------------------------------------------------------------------ bounds
\* MU and NGEN are set to 100 and 250 in main(); the model runs main() for
\* every MU in 1..MaxMU and for NGEN generations.
MaxMU == 2
NGEN == 2
\* main() explores the decision vectors 0..MaxX.
MaxX == 2
\* Longest front handed to hypervolume_contrib in ContribSpec.
MaxFront == 3

Dom == 0..MaxX
Ids == 1..(2 * MaxMU)

\* ------------------------------------------------------------- individuals
NoFit == <<>>

\* The evaluator: a pure function of the decision vector (benchmarks.zdt1 in
\* the source), here a fixed table of two-objective points indexed by the
\* decision vector.  (2, 6) is dominated by (1, 5) and (2, 3), (3, 4) by
\* (2, 3), (5, 6) by all the others.
ObjTable ==
  << <<1, 5>>, <<2, 3>>, <<2, 6>>, <<4, 1>>, <<3, 4>>, <<5, 6>> >>

\* Every decision vector the table covers.
Points == 0..(Len(ObjTable) - 1)

evaluate(x) == ObjTable[x + 1]

\* A slot of the heap that holds no live object.
Free == [x |-> 0, fit |-> NoFit, hv |-> NoFit, live |-> FALSE]

\* toolbox.individual(): a fresh individual, both fitnesses invalid.
individual(x) == [x |-> x, fit |-> NoFit, hv |-> NoFit, live |-> TRUE]

\* base.Fitness.valid: the fitness holds values.
valid(ind) == ind.fit # NoFit

\* base.Fitness.wvalues with weights (-1.0, -1.0).
wvalues(ind) == << (-1) * ind.fit[1], (-1) * ind.fit[2] >>

\* toolbox.clone: a deep copy, a new object equal to the original.
clone(ind) == ind

\* ---------------------------------------------------------------- sequences
Range(s) == {s[i] : i \in 1..Len(s)}

NoDup(s) == \A i, j \in 1..Len(s) : i # j => s[i] # s[j]

\* The elements of a finite set of integers in ascending order.
SeqOfSet(S) ==
  [i \in 1..Cardinality(S) |->
     CHOOSE a \in S : Cardinality({b \in S : b < a}) = i - 1]

\* The subsequence of s whose elements satisfy membership in S.
Restrict(s, S) == SelectSeq(s, LAMBDA e : e \in S)

Max(S) == CHOOSE a \in S : \A b \in S : a >= b

\* -------------------------------------------------------------- hypervolume
NoRef == <<>>

\* hv.hypervolume(pointset, ref): the exact measure of the region dominated
\* by the points and bounded by ref, minimization implied.  On integer
\* coordinates the region is a union of unit cells ([a, a+1) x [b, b+1)).
hypervolume(pointset, ref) ==
  Cardinality({c \in (0..(ref[1] - 1)) \X (0..(ref[2] - 1)) :
                 \E i \in 1..Len(pointset) :
                    pointset[i][1] <= c[1] /\ pointset[i][2] <= c[2]})

\* numpy.concatenate((wobj[:i], wobj[i+1:])) with the source's 0-based i
\* written 1-based: the points but the i-th, order kept.
Without(wobj, i) ==
  [j \in 1..(Len(wobj) - 1) |-> IF j < i THEN wobj[j] ELSE wobj[j + 1]]

\* wobj = numpy.array([ind.fitness.wvalues for ind in front]) * -1
Wobj(front) ==
  [i \in 1..Len(front) |->
     << (-1) * wvalues(front[i])[1], (-1) * wvalues(front[i])[2] >>]

\* numpy.max(wobj, axis=0) + 1
DefaultRef(wobj) ==
  << Max({wobj[i][1] : i \in 1..Len(wobj)}) + 1,
     Max({wobj[i][2] : i \in 1..Len(wobj)}) + 1 >>

\* contribution(i) for every i of the front, given wobj, ref and total_hv.
Contributions(wobj, ref, total_hv) ==
  [i \in 1..Len(wobj) |-> total_hv - hypervolume(Without(wobj, i), ref)]

\* A slip that takes the hypervolume without p_i for the contribution of
\* p_i, as the comment in contribution() words it.
ContribWithout(front, ref0) ==
  LET wobj == Wobj(front)
      ref == IF ref0 = NoRef THEN DefaultRef(wobj) ELSE ref0
  IN  [i \in 1..Len(wobj) |-> hypervolume(Without(wobj, i), ref)]

\* hypervolume_contrib(front, ref=ref0): front is a list of individuals with
\* valid fitness, ref0 the keyword argument (NoRef when it is not given).
\* wobj, ref and total_hv are each computed once, as in the source.
hypervolume_contrib(front, ref0) ==
  CHOOSE out \in
    { Contributions(wobj, ref, total_hv) :
        <<wobj, ref, total_hv>> \in
          { <<w, r, hypervolume(w, r)>> :
              <<w, r>> \in
                { <<w, IF ref0 = NoRef THEN DefaultRef(w) ELSE ref0>> :
                    w \in {Wobj(front)} } } } : TRUE

\* ------------------------------------------------------- sorting, selection
\* Pareto dominance on fitness values, both objectives minimized.
dominates(a, b) ==
  /\ a[1] <= b[1] /\ a[2] <= b[2]
  /\ (a[1] < b[1] \/ a[2] < b[2])

\* The individuals of the set S that none of S dominates.
NonDominated(S, h) ==
  {a \in S : ~ \E b \in S : dominates(h[b].fit, h[a].fit)}

RECURSIVE AllFronts(_, _)
\* The fronts of the individuals ids (a list), first front first: front k is
\* the non-dominated subset of what fronts 0..k-1 leave, in list order.
AllFronts(ids, h) ==
  IF ids = <<>> THEN <<>>
  ELSE CHOOSE fs \in
         { <<Restrict(ids, first)>> \o AllFronts(rest, h) :
             <<first, rest>> \in
               { <<f, Restrict(ids, Range(ids) \ f)>> :
                   f \in {NonDominated(Range(ids), h)} } } : TRUE

RECURSIVE SizeUpTo(_, _)
SizeUpTo(fs, n) == IF n = 0 THEN 0 ELSE SizeUpTo(fs, n - 1) + Len(fs[n])

\* The fronts up to and with the first one at which the number of
\* individuals sorted reaches n; all of them when it never does.
UpTo(fs, n) ==
  LET enough == {i \in 1..Len(fs) : SizeUpTo(fs, i) >= n}
  IN  IF enough = {} THEN fs
      ELSE SubSeq(fs, 1, CHOOSE i \in enough : \A j \in enough : i <= j)

\* tools.sortLogNondominated(individuals, k): the fronts, up to and with the
\* first one at which the number of individuals sorted reaches k.
sortLogNondominated(ids, n, h) ==
  CHOOSE out \in {UpTo(fs, n) : fs \in {AllFronts(ids, h)}} : TRUE

\* tools.selBest(individuals, k, fit_attr="fitness_hv"): the k best of the
\* list by fitness_hv (weight 1.0: greater is better), sorted best first by
\* a stable sort.
selBest(ids, n, h) ==
  LET score(i) == h[ids[i]].hv[1]
      rank(i) == Cardinality({j \in 1..Len(ids) :
                    score(j) > score(i) \/ (score(j) = score(i) /\ j < i)}) + 1
      m == IF n < Len(ids) THEN n ELSE Len(ids)
  IN  [r \in 1..m |-> ids[CHOOSE i \in 1..Len(ids) : rank(i) = r]]

\* A registration that keeps the worst instead of the best.
selWorst(ids, n, h) ==
  LET score(i) == h[ids[i]].hv[1]
      rank(i) == Cardinality({j \in 1..Len(ids) :
                    score(j) < score(i) \/ (score(j) = score(i) /\ j < i)}) + 1
      m == IF n < Len(ids) THEN n ELSE Len(ids)
  IN  [r \in 1..m |-> ids[CHOOSE i \in 1..Len(ids) : rank(i) = r]]

\* toolbox.select as registered: selBest on the fitness_hv attribute.
select(ids, n, h) == selBest(ids, n, h)

\* -------------------------------------------------------------------- state
VARIABLES
  MU,         \* the population size main() runs with
  pc,         \* the place main() has reached
  gen,        \* the loop variable of the generational loop
  heap,       \* id -> individual
  pop,        \* list of ids
  parents,    \* the list tools.selRandom returned (ids of pop)
  offspring,  \* list of ids
  k,          \* the pair the variation loop handles next
  varlog,     \* history: per offspring position, mutations and mate partner
  invalid_n,  \* len(invalid_ind) of the last evaluation
  fronts,     \* list of lists of ids
  fi,         \* the front the selection loop handles next
  chosen,     \* list of ids
  truncated,  \* history: index of the front the loop truncated, 0 if none
  remaining,  \* history: the number asked of select for that front
  logbook,    \* list of [gen, evals] records
  cIn, cRef, cOut   \* argument and result of a call of hypervolume_contrib

vars == << MU, pc, gen, heap, pop, parents, offspring, k, varlog, invalid_n,
           fronts, fi, chosen, truncated, remaining, logbook, cIn, cRef, cOut >>

mainVarsButPc == << MU, gen, heap, pop, parents, offspring, k, varlog,
                    invalid_n, fronts, fi, chosen, truncated, remaining,
                    logbook >>

\* The individuals of a list that have an invalid fitness, as positions.
InvalidAt(ids, h) == {i \in 1..Len(ids) : ~ valid(h[ids[i]])}

\* The evaluation loop: every individual of ids with an invalid fitness gets
\* the evaluator's value for its decision vector.
Evaluated(ids, h) ==
  [id \in Ids |->
     IF id \in Range(ids) /\ ~ valid(h[id])
       THEN [h[id] EXCEPT !.fit = evaluate(h[id].x)]
       ELSE h[id]]

\* State after toolbox.population(n=MU): MU fresh individuals.
Init ==
  /\ MU \in 1..MaxMU
  /\ \E xs \in [1..MU -> Dom] :
       heap = [id \in Ids |-> IF id <= MU THEN individual(xs[id]) ELSE Free]
  /\ pop = [i \in 1..MU |-> i]
  /\ pc = "eval0"
  /\ gen = 0
  /\ parents = <<>> /\ offspring = <<>> /\ k = 0 /\ varlog = <<>>
  /\ invalid_n = 0
  /\ fronts = <<>> /\ fi = 0 /\ chosen = <<>>
  /\ truncated = 0 /\ remaining = 0
  /\ logbook = <<>>
  /\ cIn = <<>> /\ cRef = NoRef /\ cOut = <<>>

\* Evaluate the initial population.
EvaluateInit ==
  /\ pc = "eval0"
  /\ invalid_n' = Cardinality(InvalidAt(pop, heap))
  /\ heap' = Evaluated(pop, heap)
  /\ pc' = "record0"
  /\ UNCHANGED << MU, gen, pop, parents, offspring, k, varlog, fronts, fi,
                  chosen, truncated, remaining, logbook, cIn, cRef, cOut >>

\* stats.compile(pop); logbook.record(gen=0, evals=len(invalid_ind)).
RecordInit ==
  /\ pc = "record0"
  /\ logbook' = Append(logbook, [gen |-> 0, evals |-> invalid_n])
  /\ pc' = "loop"
  /\ UNCHANGED << MU, gen, heap, pop, parents, offspring, k, varlog,
                  invalid_n, fronts, fi, chosen, truncated, remaining,
                  cIn, cRef, cOut >>

\* A loop that runs gen up to NGEN itself.
InRangeIncl(g) == g <= NGEN

\* g in range(1, NGEN), for a g >= 1
InRange(g) == g < NGEN

\* for gen in range(1, NGEN): the loop takes the next value of gen.
LoopNext ==
  /\ pc = "loop"
  /\ InRange(gen + 1)
  /\ gen' = gen + 1
  /\ pc' = "vary"
  /\ UNCHANGED << MU, heap, pop, parents, offspring, k, varlog, invalid_n,
                  fronts, fi, chosen, truncated, remaining, logbook,
                  cIn, cRef, cOut >>

\* for gen in range(1, NGEN): the range is exhausted.
LoopExit ==
  /\ pc = "loop"
  /\ ~ InRange(gen + 1)
  /\ pc' = "final"
  /\ UNCHANGED << MU, gen, heap, pop, parents, offspring, k, varlog,
                  invalid_n, fronts, fi, chosen, truncated, remaining,
                  logbook, cIn, cRef, cOut >>

\* The ids new objects get: the free slots, lowest first.
FreshIds(h, n) == SubSeq(SeqOfSet({id \in Ids : ~ h[id].live}), 1, n)

\* A variation that works on the selected individuals themselves.
NoClones(h, par) == [heap |-> h, offspring |-> par]

\* The heap with the individuals of par copied to the addresses new.
WithClones(h, par, new) ==
  [id \in Ids |->
     IF \E i \in 1..Len(par) : new[i] = id
       THEN clone(h[par[CHOOSE i \in 1..Len(par) : new[i] = id]])
       ELSE h[id]]

\* offspring = [toolbox.clone(ind) for ind in offspring]: one new object per
\* entry of the list, the heap with them and their ids.
Clones(h, par) ==
  CHOOSE r \in
    { [heap |-> WithClones(h, par, new), offspring |-> new] :
        new \in {FreshIds(h, Len(par))} } : TRUE

\* offspring = tools.selRandom(pop, len(pop)), then the clones.  selRandom's
\* body is not part of the file: the call is given len(pop) as the number to
\* draw and pop to draw from, and every such draw is allowed here, with or
\* without a parent repeated.
VarySelect ==
  /\ pc = "vary"
  /\ \E par \in [1..Len(pop) -> Range(pop)] :
       \E made \in {Clones(heap, par)} :
         /\ parents' = par
         /\ heap' = made.heap
         /\ offspring' = made.offspring
  /\ varlog' = [i \in 1..Len(pop) |-> [mut |-> 0, mate |-> 0]]
  /\ k' = 1
  /\ pc' = IF Len(pop) >= 2 THEN "pairs" ELSE "evaluate"
  /\ UNCHANGED << MU, gen, pop, invalid_n, fronts, fi, chosen, truncated,
                  remaining, logbook, cIn, cRef, cOut >>

\* A variation that leaves the fitness of the varied individual in place.
KeepFitness(ind, x) == [ind EXCEPT !.x = x]

\* toolbox.mutate(ind) and del ind.fitness.values: the individual with the
\* decision vector variation left it and no primary fitness.
Varied(ind, x) == [ind EXCEPT !.x = x, !.fit = NoFit]

\* One turn of the loop over zip(offspring[::2], offspring[1::2]): the k-th
\* pair is mated with probability CXPB, both are mutated, both lose their
\* fitness.  mate and mutate change decision vectors in place, to any value
\* within the bounds.
VaryPair ==
  /\ pc = "pairs"
  /\ 2 * k <= Len(offspring)
  /\ LET i1 == 2 * k - 1
         i2 == 2 * k
         ind1 == offspring[i1]
         ind2 == offspring[i2]
     IN  \E cx \in BOOLEAN, x1 \in Dom, x2 \in Dom :
           /\ heap' = LET h1 == [heap EXCEPT ![ind1] = Varied(heap[ind1], x1)]
                      IN  [h1 EXCEPT ![ind2] = Varied(h1[ind2], x2)]
           /\ varlog' = [varlog EXCEPT
                           ![i1] = [mut |-> @.mut + 1,
                                    mate |-> IF cx THEN i2 ELSE 0],
                           ![i2] = [mut |-> @.mut + 1,
                                    mate |-> IF cx THEN i1 ELSE 0]]
  /\ k' = k + 1
  /\ pc' = IF 2 * (k + 1) <= Len(offspring) THEN "pairs" ELSE "evaluate"
  /\ parents' = <<>>
  /\ UNCHANGED << MU, gen, pop, offspring, invalid_n, fronts, fi,
                  chosen, truncated, remaining, logbook, cIn, cRef, cOut >>

\* Evaluate the offspring with an invalid fitness.
EvaluateOffspring ==
  /\ pc = "evaluate"
  /\ invalid_n' = Cardinality(InvalidAt(offspring, heap))
  /\ heap' = Evaluated(offspring, heap)
  /\ pc' = "sort"
  /\ parents' = <<>>
  /\ UNCHANGED << MU, gen, pop, offspring, k, varlog, fronts, fi,
                  chosen, truncated, remaining, logbook, cIn, cRef, cOut >>

\* pop = pop + offspring; fronts = toolbox.sort(pop, len(pop)); chosen = [].
Sort ==
  /\ pc = "sort"
  /\ \E pool \in {pop \o offspring} :
       /\ pop' = pool
       /\ fronts' = sortLogNondominated(pool, Len(pool), heap)
  /\ chosen' = <<>>
  /\ fi' = 1
  /\ truncated' = 0
  /\ remaining' = 0
  /\ pc' = IF pop \o offspring = <<>> THEN "install" ELSE "select"
  /\ varlog' = <<>>
  /\ UNCHANGED << MU, gen, heap, parents, offspring, k, invalid_n,
                  logbook, cIn, cRef, cOut >>

\* A test that sends a front that fits exactly to the truncation branch.
FitsStrict(n, m) == n < m

\* len(chosen) + len(front) <= MU
Fits(n, m) == n <= m

\* ind.fitness_hv.values = (fit_hv,) for the individuals of a front.
AssignHV(h, front, fitness_hv) ==
  [id \in Ids |->
     IF \E i \in 1..Len(front) : front[i] = id
       THEN [h[id] EXCEPT !.hv =
               << fitness_hv[CHOOSE i \in 1..Len(front) :
                     front[i] = id /\ \A j \in (i + 1)..Len(front) : front[j] # id] >>]
       ELSE h[id]]

\* A call of select that asks for MU individuals whatever chosen holds.
RemainingAll(mu, ch) == mu

\* MU - len(chosen)
Remaining(mu, ch) == mu - Len(ch)

\* One turn of the loop over the fronts: a front that fits is moved to
\* chosen and the loop goes on (it ends when that was the last front); a front
\* that does not is scored, its best individuals are moved and the loop
\* breaks.
SelectFront ==
  /\ pc = "select"
  /\ fi <= Len(fronts)
  /\ LET front == fronts[fi]
     IN  \/ /\ Fits(Len(chosen) + Len(front), MU)
            /\ chosen' = chosen \o front
            /\ fi' = fi + 1
            /\ pc' = IF fi + 1 <= Len(fronts) THEN "select" ELSE "install"
            /\ UNCHANGED << heap, truncated, remaining >>
         \/ /\ ~ Fits(Len(chosen) + Len(front), MU)
            /\ \E fitness_hv \in {hypervolume_contrib(
                                   [i \in 1..Len(front) |-> heap[front[i]]], NoRef)} :
                 \E h1 \in {AssignHV(heap, front, fitness_hv)} :
                   /\ heap' = h1
                   /\ chosen' = chosen \o select(front, Remaining(MU, chosen), h1)
            /\ truncated' = fi
            /\ remaining' = Remaining(MU, chosen)
            /\ pc' = "install"
            /\ UNCHANGED fi
  /\ UNCHANGED << MU, gen, pop, parents, offspring, k, varlog, invalid_n,
                  fronts, logbook, cIn, cRef, cOut >>

\* The heap once chosen is the only list left: its individuals, renamed
\* 1..len(chosen) in list order (an id is an address and means nothing from
\* one generation to the next), and every other slot free.
Collected(h, ids) ==
  [id \in Ids |-> IF id <= Len(ids) THEN h[ids[id]] ELSE Free]

\* pop = chosen; stats.compile(pop); logbook.record(gen=gen, evals=...).
\* offspring, fronts and chosen are not read again before they are rebound.
Install ==
  /\ pc = "install"
  /\ pop' = [i \in 1..Len(chosen) |-> i]
  /\ heap' = Collected(heap, chosen)
  /\ logbook' = Append(logbook, [gen |-> gen, evals |-> invalid_n])
  /\ offspring' = <<>> /\ fronts' = <<>> /\ chosen' = <<>>
  /\ fi' = 0 /\ k' = 0 /\ truncated' = 0 /\ remaining' = 0
  /\ pc' = "loop"
  /\ UNCHANGED << MU, gen, parents, varlog, invalid_n, cIn, cRef, cOut >>

\* hypervolume(pop, [11.0, 11.0]) is printed and main() returns.
Final ==
  /\ pc = "final"
  /\ pc' = "done"
  /\ UNCHANGED << MU, gen, heap, pop, parents, offspring, k, varlog,
                  invalid_n, fronts, fi, chosen, truncated, remaining,
                  logbook, cIn, cRef, cOut >>

Next ==
  \/ EvaluateInit \/ RecordInit \/ LoopNext \/ LoopExit
  \/ VarySelect \/ VaryPair \/ EvaluateOffspring
  \/ Sort \/ SelectFront \/ Install \/ Final

Spec == Init /\ [][Next]_vars

\* main() is one sequential run: whenever a step is possible, one is taken.
FairSpec == Spec /\ WF_vars(Next)

\* ----------------------------------------------- the selection loop alone
\* The fronts that cut the list 1..n (n >= 1) after the positions in cuts.
Blocks(n, cuts) ==
  LET bs == SeqOfSet(cuts \cup {n})
  IN  [j \in 1..Len(bs) |->
         LET prev == IF j = 1 THEN 0 ELSE bs[j - 1]
         IN  [i \in 1..(bs[j] - prev) |-> prev + i]]

\* The selection loop of main() entered with any list of non-empty fronts
\* over a pool of 1 to MaxMU + 1 evaluated individuals, for any MU.
InitSel ==
  /\ MU \in 1..MaxMU
  /\ \E n \in 1..(MaxMU + 1) :
       /\ \E xs \in [1..n -> Points] :
            heap = [id \in Ids |->
                      IF id <= n
                        THEN [individual(xs[id]) EXCEPT !.fit = evaluate(xs[id])]
                        ELSE Free]
       /\ pop = [i \in 1..n |-> i]
       /\ \E cuts \in SUBSET (1..(n - 1)) : fronts = Blocks(n, cuts)
  /\ pc = "select"
  /\ gen = 1
  /\ parents = <<>> /\ offspring = <<>> /\ k = 0 /\ varlog = <<>>
  /\ invalid_n = 0
  /\ fi = 1 /\ chosen = <<>>
  /\ truncated = 0 /\ remaining = 0
  /\ logbook = <<>>
  /\ cIn = <<>> /\ cRef = NoRef /\ cOut = <<>>

NextSel == SelectFront \/ Install

SelSpec == InitSel /\ [][NextSel]_vars

\* ------------------------------------------- hypervolume_contrib alone
\* Reference points no point of the table exceeds.
RefArgs == { <<6, 7>>, <<7, 8>> }

\* A call of hypervolume_contrib on any list of 1..MaxFront evaluated
\* individuals, with the ref keyword absent or one of RefArgs.
InitContrib ==
  /\ \E n \in 1..MaxFront :
       \E xs \in [1..n -> Points] :
         cIn = [i \in 1..n |-> [individual(xs[i]) EXCEPT !.fit = evaluate(xs[i])]]
  /\ cRef \in {NoRef} \cup RefArgs
  /\ cOut = <<>>
  /\ pc = "contrib"
  /\ MU = 1
  /\ heap = [id \in Ids |-> Free]
  /\ pop = <<>> /\ gen = 0
  /\ parents = <<>> /\ offspring = <<>> /\ k = 0 /\ varlog = <<>>
  /\ invalid_n = 0
  /\ fronts = <<>> /\ fi = 0 /\ chosen = <<>>
  /\ truncated = 0 /\ remaining = 0
  /\ logbook = <<>>

Contrib ==
  /\ pc = "contrib"
  /\ cOut' = hypervolume_contrib(cIn, cRef)
  /\ pc' = "returned"
  /\ UNCHANGED << mainVarsButPc, cIn, cRef >>

NextContrib == Contrib

ContribSpec == InitContrib /\ [][NextContrib]_vars

\* ------------------------------------------------------------------ claims
\* The number of individuals in the fronts.
Total(fs) == SizeUpTo(fs, Len(fs))

Fresh(ind) == valid(ind) /\ ind.fit = evaluate(ind.x)

C2_SelectionResult ==
  pc = "install" =>
    LET whole == IF truncated = 0 THEN Len(fronts) ELSE truncated - 1
    IN  /\ \A j \in 1..whole : Range(fronts[j]) \subseteq Range(chosen)
        /\ truncated # 0 =>
             /\ \A j \in (truncated + 1)..Len(fronts) :
                  Range(fronts[j]) \cap Range(chosen) = {}
             /\ \A a \in Range(fronts[truncated]) \cap Range(chosen) :
                  \A b \in Range(fronts[truncated]) \ Range(chosen) :
                    heap[a].hv[1] >= heap[b].hv[1]

\* Two of the three points (1,5), (2,3), (4,1) are asked for: (2,3) and
\* (4,1), of contribution 4 and 2, are kept and (1,5), of contribution 1,
\* is dropped.
C2_Witness ==
  /\ pc = "install" /\ MU = 2 /\ truncated = 1 /\ fronts = << <<1, 2, 3>> >>
  /\ heap[1].fit = <<1, 5>> /\ heap[2].fit = <<2, 3>> /\ heap[3].fit = <<4, 1>>
  /\ chosen = <<2, 3>>

\* The reference hypervolume_contrib is to use for the call in cIn, cRef.
C3_Ref ==
  IF cRef # NoRef THEN cRef
  ELSE << Max({cIn[i].fit[1] : i \in 1..Len(cIn)}) + 1,
          Max({cIn[i].fit[2] : i \in 1..Len(cIn)}) + 1 >>

\* The unit cells below the reference that point i of cIn dominates.
C3_Cells(i) ==
  {c \in (0..(C3_Ref[1] - 1)) \X (0..(C3_Ref[2] - 1)) :
     cIn[i].fit[1] <= c[1] /\ cIn[i].fit[2] <= c[2]}

C4_NoStaleFitness ==
  /\ \A id \in Ids : heap[id].live /\ valid(heap[id]) => Fresh(heap[id])
  /\ pc \in {"record0", "loop", "vary", "final", "done"} =>
       \A id \in Range(pop) : Fresh(heap[id])
  /\ pc = "sort" => \A id \in Range(pop) \cup Range(offspring) : Fresh(heap[id])
  /\ pc = "select" => \A j \in 1..Len(fronts) : \A id \in Range(fronts[j]) :
                        Fresh(heap[id])
  /\ pc = "install" => \A id \in Range(chosen) : Fresh(heap[id])
  /\ pc = "evaluate" => \A i \in 1..Len(offspring) :
                          varlog[i].mut > 0 => ~ valid(heap[offspring[i]])

\* The sort is about to read an offspring that variation moved to a decision
\* vector no parent has, and that was evaluated again.
C4_Witness ==
  /\ pc = "sort" /\ invalid_n = 2
  /\ \E i \in 1..Len(offspring) : \A id \in Range(pop) :
       heap[offspring[i]].x # heap[id].x /\ Fresh(heap[offspring[i]])

C6_CyclesNGEN == pc = "done" => Len(logbook) - 1 = NGEN

\* C6: every run of main() ends; when it has, the cycle has run NGEN - 1
\* times, one logbook record each after the record of the initial
\* population, and the records carry the generations 0, 1, ..., NGEN - 1.
C6_Terminates ==
  /\ <>(pc = "done")
  /\ [](pc = "done" =>
          /\ Len(logbook) - 1 = NGEN - 1
          /\ \A i \in 1..Len(logbook) : logbook[i].gen = i - 1)
  /\ [](\A i \in 1..Len(logbook) : logbook[i].gen = i - 1)

C6_Witness == pc = "done" /\ Len(logbook) = NGEN /\ logbook[NGEN].gen = NGEN - 1

\* C7: the parents drawn in a VARYING step are a permutation of the
\* population.  VarySelect allows every draw of len(pop) parents, so this
\* fails in the model; whether tools.selRandom can repeat a parent is
\* decided by its body, which the file does not hold.
C7_ParentsPermutation ==
  pc = "pairs" /\ parents # <<>> =>
    Len(parents) = Len(pop) /\ Range(parents) = Range(pop) /\ NoDup(parents)

\* C8: when the variation loop has ended every offspring has been mutated
\* exactly once, is mated with at most its neighbour of the same pair, and
\* has an invalid fitness; the evaluations counted are the offspring varied.
C8_EveryOffspringVaried ==
  /\ pc = "evaluate" =>
       \A i \in 1..Len(offspring) :
         /\ varlog[i].mut = 1
         /\ varlog[i].mate \in {0, IF i % 2 = 1 THEN i + 1 ELSE i - 1}
         /\ ~ valid(heap[offspring[i]])
  /\ pc = "sort" =>
       invalid_n = Cardinality({i \in 1..Len(offspring) : varlog[i].mut > 0})

C10_ParentsKept ==
  pc \in {"vary", "pairs", "evaluate"} =>
    (pop' = pop /\ \A id \in Range(pop) : heap'[id] = heap[id])

\* C10: variation changes no individual of the population; offspring are
\* objects of their own, each a copy of its parent when it is made, and no
\* object appears twice in the pool, whose first MU entries are the
\* population.
C10_CloneIsolation ==
  /\ [][C10_ParentsKept]_vars
  /\ [](pc \in {"pairs", "evaluate", "sort"} =>
          /\ NoDup(pop) /\ NoDup(offspring)
          /\ Range(pop) \cap Range(offspring) = {}
          /\ Len(offspring) = Len(pop))
  /\ [](pc = "pairs" /\ parents # <<>> =>
          \A i \in 1..Len(offspring) : heap[offspring[i]] = heap[parents[i]])
  /\ [](pc = "select" => NoDup(pop))

\* Variation has moved an offspring to a decision vector no parent has.
C10_Witness ==
  /\ pc = "evaluate" /\ MU = 2
  /\ \A i \in 1..Len(offspring) : \A id \in Range(pop) :
       heap[offspring[i]].x # heap[id].x

====
